---- MODULE Spec2Model ----
(***************************************************************************)
(* Model of icarusalg/gallery/examples/PMTwaveforms:                        *)
(*   C++/PMTconfigToSettings.py   (log scanner, collector, formatter)       *)
(*   python/WaveformBaselines.py  (grouping by channel, baseline driver)    *)
(*                                                                         *)
(* Text is modelled as a sequence of one-character strings (identifiers    *)
(* are kept as one token).  An input line is modelled by the result of the *)
(* two regular-expression searches applied to it: for each pattern either  *)
(* no match or the captured digit strings.                                 *)
(***************************************************************************)
EXTENDS Integers, Sequences, FiniteSets, TLC

VARIABLES
  \* ---- extractPMTreadoutSettings (PMTconfigToSettings.py) ----
  inputFile,        \* the lines returned by inputFile.readlines()
  iLine,            \* number of lines consumed (= index of the next line, 0-based)
  Settings,         \* the list of records being accumulated
  currentBoard,     \* None or the number of the last board header
  channelsInBoard,  \* set of board channels seen since the last board header
  expectedChannels, \* None or the channel count declared by the last header
  warnings,         \* messages sent to logger.warning, in order
  error,            \* the exception that left the function, if any
  result,           \* the value returned to the caller, if any
  pc,               \* "scan", "done" (returned) or "failed" (raised)
  \* ---- formatData (PMTconfigToSettings.py) ----
  settings,         \* the list of records handed to formatData
  args,             \* the parsed command line: outputFormat, varName
  output,           \* the text returned by formatData, or the exception raised
  fpc,              \* "call" before formatData runs, "done" or "failed" after
  \* ---- WaveformBaselines.py, the script ----
  NumEvents,        \* number of events in the input files
  wargs,            \* the parsed command line: MaxEvents, NSkip
  iEvent,           \* index of the event the loop is at
  nEvents,          \* number of events processed so far
  Waveforms,        \* the waveforms of the current event
  WaveformsByChannel, \* the buckets of the current event
  channel,          \* index of the bucket the inner loop is at
  channelWaveforms, \* the module-level variable bound by the inner loop
  baselines,        \* the "Channel ...: baseline ..." lines printed for the event
  werror,           \* the exception that ended the script, if any
  wpc,              \* "event", "channels", "end" or "failed"
  \* ---- WaveformBaselines.py, the functions called on their own ----
  callWaveforms,    \* the Waveforms argument
  callNChannels,    \* the NChannels argument (None when omitted)
  callResult,       \* what the call returned or raised
  cpc               \* "call" before the call, "done" after

scanVars == << inputFile, iLine, Settings, currentBoard, channelsInBoard,
               expectedChannels, warnings, error, result, pc >>

fmtVars == << settings, args, output, fpc >>

waveVars == << NumEvents, wargs, iEvent, nEvents, Waveforms, WaveformsByChannel,
               channel, channelWaveforms, baselines, werror, wpc >>

callVars == << callWaveforms, callNChannels, callResult, cpc >>

\* the variables each part of the repository leaves alone
notScanVars == << fmtVars, waveVars, callVars >>
notFmtVars == << scanVars, waveVars, callVars >>
notWaveVars == << scanVars, fmtVars, callVars >>
notCallVars == << scanVars, fmtVars, waveVars >>

vars == << inputFile, iLine, Settings, currentBoard, channelsInBoard,
           expectedChannels, warnings, error, result, pc,
           settings, args, output, fpc,
           NumEvents, wargs, iEvent, nEvents, Waveforms, WaveformsByChannel,
           channel, channelWaveforms, baselines, werror, wpc,
           callWaveforms, callNChannels, callResult, cpc >>

\* ------------------------------------------------------------------ bounds
MaxLines == 5
MaxRecords == 2
MaxWaveforms == 3
MaxChannel == 2
MaxEvts == 2

\* ------------------------------------------------------------- primitives
None == -1

Max(a, b) == IF a >= b THEN a ELSE b

SetMin(S) == CHOOSE m \in S : \A x \in S : m <= x
SetMax(S) == CHOOSE m \in S : \A x \in S : m >= x

SeqsUpTo(S, n) == UNION { [1..k -> S] : k \in 0..n }

\* value of one decimal digit character
DigitVal(c) ==
  CASE c = "0" -> 0 [] c = "1" -> 1 [] c = "2" -> 2 [] c = "3" -> 3
    [] c = "4" -> 4 [] c = "5" -> 5 [] c = "6" -> 6 [] c = "7" -> 7
    [] c = "8" -> 8 [] c = "9" -> 9

\* Python int(s) for a string s of decimal digits (what \d+ captures)
RECURSIVE int(_)
int(s) ==
  IF Len(s) = 0 THEN 0
  ELSE 10 * int(SubSeq(s, 1, Len(s) - 1)) + DigitVal(s[Len(s)])

\* ------------------------------------------------------------ input lines
NoMatch == [matched |-> FALSE]

\* groups of ChannelPattern: 1 BoardChannel, 2 ChannelID, 3 HWBaseline, 4 HWThreshold
ChanCaps(bc, id, bl, th) ==
  [matched |-> TRUE, BoardChannel |-> bc, ChannelID |-> id,
   HWBaseline |-> bl, HWThreshold |-> th]

\* groups of BoardPattern used by the code: 2 Number, 4 NChannels
BoardCaps(num, n) == [matched |-> TRUE, Number |-> num, NChannels |-> n]

ChannelPattern(line) == line.chan
BoardPattern(line) == line.board

LineSet ==
  { [chan |-> NoMatch, board |-> NoMatch],
    [chan |-> NoMatch, board |-> BoardCaps(<<"3">>, <<"2">>)],
    [chan |-> NoMatch, board |-> BoardCaps(<<"4">>, <<"1">>)],
    [chan |-> NoMatch, board |-> BoardCaps(<<"1","0">>, <<"0">>)],
    [chan |-> ChanCaps(<<"0">>, <<"5">>, <<"7">>, <<"9">>), board |-> NoMatch],
    [chan |-> ChanCaps(<<"1">>, <<"2">>, <<"8">>, <<"6">>), board |-> NoMatch],
    [chan |-> ChanCaps(<<"0","1">>, <<"1","2">>, <<"4">>, <<"3">>), board |-> NoMatch],
    [chan |-> ChanCaps(<<"2">>, <<"5">>, <<"1">>, <<"0","0">>), board |-> NoMatch],
    [chan |-> ChanCaps(<<"2">>, <<"0">>, <<"6">>, <<"1","1">>),
     board |-> BoardCaps(<<"9">>, <<"1">>)] }

\* ---------------------------------------------------------------- records
\* Baseline and Threshold taken from each other's capture group
MakeRecordSwapped(board, m) ==
  [Channel      |-> int(m.ChannelID),
   BoardNumber  |-> board,
   BoardChannel |-> int(m.BoardChannel),
   Baseline     |-> int(m.HWThreshold),
   Threshold    |-> int(m.HWBaseline)]

MakeRecord(board, m) ==
  [Channel      |-> int(m.ChannelID),
   BoardNumber  |-> board,
   BoardChannel |-> int(m.BoardChannel),
   Baseline     |-> int(m.HWBaseline),
   Threshold    |-> int(m.HWThreshold)]

\* list.sort(key=lambda d: d['Channel']): stable, ascending
RECURSIVE InsertByChannel(_, _)
InsertByChannel(sorted, r) ==
  IF Len(sorted) = 0 THEN << r >>
  ELSE IF sorted[Len(sorted)].Channel <= r.Channel THEN Append(sorted, r)
  ELSE Append(InsertByChannel(SubSeq(sorted, 1, Len(sorted) - 1), r),
              sorted[Len(sorted)])

\* the list returned as accumulated, the sort left out
SortByChannelOmitted(s) == s

RECURSIVE SortByChannel(_)
SortByChannel(s) ==
  IF Len(s) = 0 THEN << >>
  ELSE InsertByChannel(SortByChannel(SubSeq(s, 1, Len(s) - 1)), s[Len(s)])

\* ---------------------------------------------------------------- messages
\* an f-string: the placeholders are replaced by the values
FString(template, values) == [text |-> template, values |-> values]
\* a plain string literal: the braces stay in the text, nothing is interpolated
PlainString(template) == [text |-> template, values |-> [k \in {} |-> 0]]

NoError == [kind |-> "none", msg |-> PlainString("")]

AssertMessage(i) ==
  FString("At line {iLine}: missed the board number in the input log file.",
          [k \in {"iLine"} |-> i])

DuplicateMessage(i, bc, board) ==
  PlainString("At line {iLine}: missed a board number in the input log file, board channel {boardChannel} was already found in board {currentBoard}.")

WarningMessage(board, seen, expected) ==
  [board |-> board, count |-> Cardinality(seen), expected |-> expected,
   channels |-> seen]

\* ------------------------------------------------------------- conditions
\* the assertion compiled away
MissingBoardUnchecked(board) == FALSE

MissingBoard(board) == board = None

DuplicateInBoard(bc, seen) == bc \in seen

\* only a board with fewer channels than declared is reported
CountMismatchFewer(expected, seen) ==
  expected # None /\ Cardinality(seen) < expected

CountMismatch(expected, seen) ==
  expected # None /\ Cardinality(seen) # expected

\* the seen-set carried over to the next board
ResetChannelsOmitted(seen) == seen

ResetChannels(seen) == {}

\* ---------------------------------------------------------------- scanner
ScanInit ==
  /\ inputFile \in SeqsUpTo(LineSet, MaxLines)
  /\ iLine = 0
  /\ Settings = << >>
  /\ currentBoard = None
  /\ channelsInBoard = {}
  /\ expectedChannels = None
  /\ warnings = << >>
  /\ error = NoError
  /\ result = [returned |-> FALSE, value |-> << >>]
  /\ pc = "scan"

HasLine == pc = "scan" /\ iLine < Len(inputFile)
Line == inputFile[iLine + 1]

\* channel line while no board header has been seen: the assert fails
ChannelLineNoBoard ==
  /\ HasLine
  /\ ChannelPattern(Line).matched
  /\ MissingBoard(currentBoard)
  /\ error' = [kind |-> "AssertionError", msg |-> AssertMessage(iLine)]
  /\ pc' = "failed"
  /\ UNCHANGED << inputFile, iLine, Settings, currentBoard, channelsInBoard,
                  expectedChannels, warnings, result >>
  /\ UNCHANGED notScanVars

\* channel line whose board channel is already in channelsInBoard: raise
ChannelLineDuplicate ==
  /\ HasLine
  /\ ChannelPattern(Line).matched
  /\ ~MissingBoard(currentBoard)
  /\ LET boardChannel == int(ChannelPattern(Line).BoardChannel) IN
       /\ DuplicateInBoard(boardChannel, channelsInBoard)
       /\ error' = [kind |-> "RuntimeError",
                    msg |-> DuplicateMessage(iLine, boardChannel, currentBoard)]
  /\ pc' = "failed"
  /\ UNCHANGED << inputFile, iLine, Settings, currentBoard, channelsInBoard,
                  expectedChannels, warnings, result >>
  /\ UNCHANGED notScanVars

\* channel line accepted: append a record, remember the board channel
ChannelLine ==
  /\ HasLine
  /\ ChannelPattern(Line).matched
  /\ ~MissingBoard(currentBoard)
  /\ LET boardChannel == int(ChannelPattern(Line).BoardChannel) IN
       /\ ~DuplicateInBoard(boardChannel, channelsInBoard)
       /\ Settings' = Append(Settings, MakeRecord(currentBoard, ChannelPattern(Line)))
       /\ channelsInBoard' = channelsInBoard \cup {boardChannel}
  /\ iLine' = iLine + 1
  /\ UNCHANGED << inputFile, currentBoard, expectedChannels, warnings,
                  error, result, pc >>
  /\ UNCHANGED notScanVars

\* board header (only reached when the channel pattern did not match)
BoardLine ==
  /\ HasLine
  /\ ~ChannelPattern(Line).matched
  /\ BoardPattern(Line).matched
  /\ warnings' =
       IF CountMismatch(expectedChannels, channelsInBoard)
       THEN Append(warnings,
                   WarningMessage(currentBoard, channelsInBoard, expectedChannels))
       ELSE warnings
  /\ channelsInBoard' = ResetChannels(channelsInBoard)
  /\ currentBoard' = int(BoardPattern(Line).Number)
  /\ expectedChannels' = int(BoardPattern(Line).NChannels)
  /\ iLine' = iLine + 1
  /\ UNCHANGED << inputFile, Settings, error, result, pc >>
  /\ UNCHANGED notScanVars

\* neither pattern matches: continue
SkipLine ==
  /\ HasLine
  /\ ~ChannelPattern(Line).matched
  /\ ~BoardPattern(Line).matched
  /\ iLine' = iLine + 1
  /\ UNCHANGED << inputFile, Settings, currentBoard, channelsInBoard,
                  expectedChannels, warnings, error, result, pc >>
  /\ UNCHANGED notScanVars

\* end of the loop: sort in place and return the list
Return ==
  /\ pc = "scan"
  /\ iLine = Len(inputFile)
  /\ Settings' = SortByChannel(Settings)
  /\ result' = [returned |-> TRUE, value |-> Settings']
  /\ pc' = "done"
  /\ UNCHANGED << inputFile, iLine, currentBoard, channelsInBoard,
                  expectedChannels, warnings, error >>
  /\ UNCHANGED notScanVars

ScanNext ==
  \/ ChannelLineNoBoard
  \/ ChannelLineDuplicate
  \/ ChannelLine
  \/ BoardLine
  \/ SkipLine
  \/ Return

\* ------------------------------------------- what the input lines determine
IsChannelLine(l) == l.chan.matched
IsBoardLine(l) == ~l.chan.matched /\ l.board.matched

\* index of the last board header before line i (0 if there is none)
PrevHeader(lines, i) ==
  LET H == { j \in 1..(i - 1) : IsBoardLine(lines[j]) }
  IN IF H = {} THEN 0 ELSE SetMax(H)

\* board channels of the channel lines strictly between lines j and i
SeenBetween(lines, j, i) ==
  { int(lines[k].chan.BoardChannel) :
      k \in { n \in (j + 1)..(i - 1) : IsChannelLine(lines[n]) } }

RECURSIVE Ascending(_)
Ascending(S) ==
  IF S = {} THEN << >> ELSE << SetMin(S) >> \o Ascending(S \ {SetMin(S)})

\* the record a channel line stands for, given the header that precedes it
RecordOfLine(lines, i) ==
  LET h == PrevHeader(lines, i) IN
  [Channel      |-> int(lines[i].chan.ChannelID),
   BoardNumber  |-> IF h = 0 THEN None ELSE int(lines[h].board.Number),
   BoardChannel |-> int(lines[i].chan.BoardChannel),
   Baseline     |-> int(lines[i].chan.HWBaseline),
   Threshold    |-> int(lines[i].chan.HWThreshold)]

ExpectedRecords(lines) ==
  LET idx == Ascending({ i \in 1..Len(lines) : IsChannelLine(lines[i]) })
  IN [k \in 1..Len(idx) |-> RecordOfLine(lines, idx[k])]

\* the headers that close a board whose seen-set differs from its declared count
MismatchHeaders(lines) ==
  { i \in 1..Len(lines) :
      /\ IsBoardLine(lines[i])
      /\ PrevHeader(lines, i) # 0
      /\ Cardinality(SeenBetween(lines, PrevHeader(lines, i), i))
           # int(lines[PrevHeader(lines, i)].board.NChannels) }

ExpectedWarnings(lines) ==
  LET idx == Ascending(MismatchHeaders(lines))
  IN [k \in 1..Len(idx) |->
        LET h == PrevHeader(lines, idx[k]) IN
        [board    |-> int(lines[h].board.Number),
         count    |-> Cardinality(SeenBetween(lines, h, idx[k])),
         expected |-> int(lines[h].board.NChannels),
         channels |-> SeenBetween(lines, h, idx[k])]]

Consumed == SubSeq(inputFile, 1, iLine)

Count(s, r) == Cardinality({ i \in DOMAIN s : s[i] = r })
IsPermutation(a, b) ==
  /\ Len(a) = Len(b)
  /\ \A i \in DOMAIN a : Count(a, a[i]) = Count(b, a[i])

DistinctChannels(s) ==
  \A i, j \in DOMAIN s : i # j => s[i].Channel # s[j].Channel
StrictlyAscending(s) ==
  \A i \in 1..(Len(s) - 1) : s[i].Channel < s[i + 1].Channel

\* ------------------------------------------------------------------ claims

\* C1: when the scan succeeds and the offline Channel ids of the appended
\* records are distinct, the returned list is strictly ascending by Channel
\* and is a permutation of the list that the scan appended.
C1_SortedPermutation ==
  [][ (pc = "scan" /\ pc' = "done" /\ DistinctChannels(Settings))
        => /\ StrictlyAscending(result'.value)
           /\ IsPermutation(Settings, result'.value) ]_vars

C1_Witness ==
  /\ pc = "done"
  /\ Len(result.value) >= 3
  /\ DistinctChannels(result.value)
  /\ result.value # ExpectedRecords(inputFile)

\* C2: if a channel-detail line comes before any board header, the scan
\* never gets past that line and never returns; when it stops it has raised
\* the assertion error (MalformedInput) at that line, whatever follows.
FirstChannelLine(lines) ==
  LET C == { i \in 1..Len(lines) : IsChannelLine(lines[i]) }
  IN IF C = {} THEN 0 ELSE SetMin(C)
ChannelBeforeBoard(lines) ==
  /\ FirstChannelLine(lines) # 0
  /\ PrevHeader(lines, FirstChannelLine(lines)) = 0

C2_ChannelBeforeBoardFails ==
  ChannelBeforeBoard(inputFile) =>
    /\ iLine <= FirstChannelLine(inputFile) - 1
    /\ pc # "done"
    /\ ~result.returned
    /\ pc = "failed" =>
         /\ error.kind = "AssertionError"
         /\ iLine = FirstChannelLine(inputFile) - 1
         /\ Settings = << >>

C2_Witness ==
  /\ pc = "failed"
  /\ error.kind = "AssertionError"
  /\ iLine = 1
  /\ \E j \in (iLine + 2)..Len(inputFile) : IsBoardLine(inputFile[j])
  /\ \E j \in (iLine + 2)..Len(inputFile) : IsChannelLine(inputFile[j])

\* C3: two channel lines with the same board-local channel number and no
\* board header between them: the scan never gets past the second one and
\* never returns, and a failure at the second one is the RuntimeError
\* (DuplicateChannel).  The RuntimeError is raised only for such a pair, so
\* a number reused after a board header (even one repeating the board
\* number) is accepted; the seen-set is empty after every board header.
SameBoardRepeat(lines, i, j) ==
  /\ i < j
  /\ IsChannelLine(lines[i])
  /\ IsChannelLine(lines[j])
  /\ int(lines[i].chan.BoardChannel) = int(lines[j].chan.BoardChannel)
  /\ PrevHeader(lines, j) < i

C4_WarningPerMismatch ==
  /\ pc # "failed" => warnings = ExpectedWarnings(Consumed)
  /\ pc = "done" =>
       /\ Len(warnings) = Cardinality(MismatchHeaders(inputFile))
       /\ IsPermutation(result.value, ExpectedRecords(inputFile))

\* a mismatching board closed by a header (one warning), a matching board
\* (none), and a last board that mismatches but is never checked
C4_Witness ==
  /\ pc = "done"
  /\ Len(warnings) = 1
  /\ Len(result.value) >= 1
  /\ Cardinality({ i \in 1..Len(inputFile) : IsBoardLine(inputFile[i]) }) = 3
  /\ Cardinality(channelsInBoard) # expectedChannels

\* C5: every fatal condition aborts the extraction at once and the error
\* handed to the caller identifies the number of the offending input line.
C5_ErrorCarriesLine ==
  pc = "failed" =>
    /\ ~result.returned
    /\ error.kind \in {"AssertionError", "RuntimeError"}
    /\ "iLine" \in DOMAIN error.msg.values
    /\ error.msg.values["iLine"] = iLine

\* C6: while the scan has not failed the accumulated list holds exactly one
\* record per consumed channel line, in line order, with BoardNumber taken
\* from the most recent preceding board header and the other fields from the
\* line's own captures (a line matching both patterns counts as a channel
\* line, a line matching neither adds nothing); a line matching neither
\* pattern leaves the scanner context as the preceding lines left it; the
\* result is that list sorted.
ContextOf(lines) ==
  LET h == PrevHeader(lines, Len(lines) + 1) IN
  IF h = 0 THEN [board |-> None, expected |-> None, seen |-> {}]
  ELSE [board    |-> int(lines[h].board.Number),
        expected |-> int(lines[h].board.NChannels),
        seen     |-> SeenBetween(lines, h, Len(lines) + 1)]

C6_OneRecordPerChannelLine ==
  /\ pc = "scan" =>
       /\ Settings = ExpectedRecords(Consumed)
       /\ currentBoard = ContextOf(Consumed).board
       /\ expectedChannels = ContextOf(Consumed).expected
       /\ channelsInBoard = ContextOf(Consumed).seen
  /\ pc = "done" =>
       /\ Len(result.value)
            = Cardinality({ i \in 1..Len(inputFile) : IsChannelLine(inputFile[i]) })
       /\ IsPermutation(result.value, ExpectedRecords(inputFile))
       /\ \A i \in 1..(Len(result.value) - 1) :
            result.value[i].Channel <= result.value[i + 1].Channel

\* two boards, a line matching both patterns taken as a channel line, and a
\* line matching neither pattern
C6_Witness ==
  /\ pc = "done"
  /\ Len(result.value) = 2
  /\ \E i \in 1..Len(inputFile) :
       IsChannelLine(inputFile[i]) /\ inputFile[i].board.matched
  /\ \E i \in 2..Len(inputFile) :
       ~inputFile[i].chan.matched /\ ~inputFile[i].board.matched
  /\ result.value[1].BoardNumber # result.value[2].BoardNumber

\* ================================================================ formatter
Digits == {"0", "1", "2", "3", "4", "5", "6", "7", "8", "9"}

DigitChar(d) ==
  CASE d = 0 -> "0" [] d = 1 -> "1" [] d = 2 -> "2" [] d = 3 -> "3"
    [] d = 4 -> "4" [] d = 5 -> "5" [] d = 6 -> "6" [] d = 7 -> "7"
    [] d = 8 -> "8" [] d = 9 -> "9"

\* Python str(v) for a non-negative integer
RECURSIVE str(_)
str(v) ==
  IF v < 10 THEN << DigitChar(v) >>
  ELSE str(v \div 10) \o << DigitChar(v % 10) >>

RECURSIVE Spaces(_)
Spaces(n) == IF n <= 0 THEN << >> ELSE << " " >> \o Spaces(n - 1)

\* f"{v:0{width}d}": padded with zeros instead of spaces
RECURSIVE Zeros(_)
Zeros(n) == IF n <= 0 THEN << >> ELSE << "0" >> \o Zeros(n - 1)
FormatDZeroPadded(v, width) == Zeros(width - Len(str(v))) \o str(v)

\* f"{v:{width}d}": decimal, right-aligned, padded with spaces on the left
FormatD(v, width) == Spaces(width - Len(str(v))) \o str(v)

\* dict.get(key, 0)
Get(d, key) == IF key \in DOMAIN d THEN d[key] ELSE 0

RECURSIVE extractValuePaddings(_)
extractValuePaddings(entries) ==
  IF Len(entries) = 0 THEN [k \in {} |-> 0]
  ELSE LET paddings == extractValuePaddings(SubSeq(entries, 1, Len(entries) - 1))
           entry == entries[Len(entries)]
       IN [k \in DOMAIN paddings \cup DOMAIN entry |->
             IF k \in DOMAIN entry
             THEN Max(Get(paddings, k), Len(str(entry[k])))
             ELSE paddings[k]]

Keys == << "Channel", "BoardNumber", "BoardChannel", "Baseline", "Threshold" >>

\* sep.join(parts) for a sequence of texts
RECURSIVE Join(_, _)
Join(sep, parts) ==
  IF Len(parts) = 0 THEN << >>
  ELSE IF Len(parts) = 1 THEN parts[1]
  ELSE parts[1] \o sep \o Join(sep, Tail(parts))

entryToFHiCL(entry, params) ==
  << "{", " " >>
  \o Join(<< ",", " " >>,
          [i \in 1..Len(params.keys) |->
             << params.keys[i], ":", " " >>
             \o FormatD(entry[params.keys[i]], Get(params.padding, params.keys[i]))])
  \o << " ", "}" >>

entryToPython(entry, params) ==
  << "{", " " >>
  \o Join(<< >>,
          [i \in 1..Len(params.keys) |->
             << "'", params.keys[i], "'", ":", " " >>
             \o FormatD(entry[params.keys[i]], Get(params.padding, params.keys[i]))
             \o << ",", " " >>])
  \o << "}" >>

\* args.varName: None when --varname is absent, otherwise the given string
NoVarName == [isNone |-> TRUE, s |-> ""]
VarName(s) == [isNone |-> FALSE, s |-> s]
\* truth value of args.varName in "if args.varName"
Truthy(v) == ~v.isNone /\ v.s # ""

VarNameSet == { NoVarName, VarName(""), VarName("PMTsettings") }
FormatSet == { "FHiCL", "Python", "JSON" }

formatFHiCL(s, a, params) ==
  (IF Truthy(a.varName) THEN << a.varName.s, " ", ":", " " >> ELSE << >>)
  \o << "[", "\n" >>
  \o Join(<< ",", "\n" >>,
          [i \in 1..Len(s) |-> << " ", " " >> \o entryToFHiCL(s[i], params)])
  \o << "]", " " >>
  \o (IF Truthy(a.varName) THEN << "#", " ", a.varName.s >> ELSE << >>)
  \o << "\n" >>

formatPython(s, a, params) ==
  (IF Truthy(a.varName) THEN << a.varName.s, " ", "=", " " >> ELSE << >>)
  \o << "[" >>
  \o Join(<< >>,
          [i \in 1..Len(s) |->
             << "\n", " ", " " >> \o entryToPython(s[i], params) \o << "," >>])
  \o << "\n", "]", " " >>
  \o (IF Truthy(a.varName) THEN << "#", " ", a.varName.s >> ELSE << >>)
  \o << "\n" >>

formatData(s, a) ==
  LET Paddings == extractValuePaddings(s)
      params == [padding |-> Paddings, keys |-> Keys]
  IN IF a.outputFormat = "FHiCL"
       THEN [raised |-> "none", text |-> formatFHiCL(s, a, params)]
     ELSE IF a.outputFormat = "Python"
       THEN [raised |-> "none", text |-> formatPython(s, a, params)]
     ELSE [raised |-> "NotImplementedError", text |-> << >>]

RecordSet ==
  { [Channel |-> 5,   BoardNumber |-> 3,  BoardChannel |-> 0,  Baseline |-> 7,    Threshold |-> 9],
    [Channel |-> 12,  BoardNumber |-> 3,  BoardChannel |-> 1,  Baseline |-> 1480, Threshold |-> 60],
    [Channel |-> 0,   BoardNumber |-> 10, BoardChannel |-> 15, Baseline |-> 8,    Threshold |-> 0],
    [Channel |-> 359, BoardNumber |-> 4,  BoardChannel |-> 2,  Baseline |-> 100,  Threshold |-> 105] }

NoOutput == [raised |-> "none", text |-> << >>]

FmtInit ==
  /\ settings \in SeqsUpTo(RecordSet, MaxRecords)
  /\ args \in [outputFormat : FormatSet, varName : VarNameSet]
  /\ output = NoOutput
  /\ fpc = "call"

FormatFHiCL ==
  /\ fpc = "call"
  /\ args.outputFormat = "FHiCL"
  /\ output' = formatData(settings, args)
  /\ fpc' = "done"
  /\ UNCHANGED << settings, args >>
  /\ UNCHANGED notFmtVars

FormatPython ==
  /\ fpc = "call"
  /\ args.outputFormat = "Python"
  /\ output' = formatData(settings, args)
  /\ fpc' = "done"
  /\ UNCHANGED << settings, args >>
  /\ UNCHANGED notFmtVars

FormatUnsupported ==
  /\ fpc = "call"
  /\ args.outputFormat \notin {"FHiCL", "Python"}
  /\ output' = formatData(settings, args)
  /\ fpc' = "failed"
  /\ UNCHANGED << settings, args >>
  /\ UNCHANGED notFmtVars

FmtNext ==
  \/ FormatFHiCL
  \/ FormatPython
  \/ FormatUnsupported

\* ------------------------------------------- reading the Python form back
\* A reader of the emitted text as Python source: a lexer (comments and
\* white space dropped, digit runs read as decimal integers, a non-zero
\* number with a leading zero refused) and a parser of
\*   [NAME "="] "[" { dict "," } [dict] "]"    dict: "{" { 'key' ":" INT "," } "}"
Punctuation == { "[", "]", "{", "}", ":", ",", "=", "'" }

Token(t, txt, n) == [t |-> t, s |-> txt, n |-> n]
EndToken == Token("end", "", 0)

\* last index of the run of digits that starts at i
DigitsEnd(text, i) ==
  SetMax({ j \in i..Len(text) : \A k \in i..j : text[k] \in Digits })

\* index of the first newline at or after i (Len + 1 if there is none)
LineEnd(text, i) ==
  SetMin({ j \in i..Len(text) : text[j] = "\n" } \cup { Len(text) + 1 })

\* position i lies in a comment: a "#" before it on the same line
InComment(text, i) ==
  \E j \in 1..i : text[j] = "#" /\ \A k \in j..i : text[k] # "\n"

\* the positions at which a token starts
TokenStarts(text) ==
  { i \in 1..Len(text) :
      /\ text[i] \notin {" ", "\n"}
      /\ ~InComment(text, i)
      /\ ~(text[i] \in Digits /\ i > 1 /\ text[i - 1] \in Digits) }

TokenAt(text, i) ==
  LET c == text[i] IN
  IF c \in Digits THEN
    LET d == SubSeq(text, i, DigitsEnd(text, i))
    IN IF c = "0" /\ Len(d) > 1 /\ int(d) # 0
         THEN Token("error", "leading zero", 0)
         ELSE Token("int", "", int(d))
  ELSE IF c \in Punctuation THEN Token("punct", c, 0)
  ELSE Token("name", c, 0)

Lex(text) ==
  LET S == TokenStarts(text)
      rank == [i \in S |-> Cardinality({ j \in S : j < i })]
  IN [k \in 1..Cardinality(S) |-> TokenAt(text, CHOOSE i \in S : rank[i] = k - 1)]

Tok(toks, pos) == IF pos <= Len(toks) THEN toks[pos] ELSE EndToken
IsPunct(tok, c) == tok.t = "punct" /\ tok.s = c

ParseFail == [ok |-> FALSE, pos |-> 0, value |-> << >>]

\* the items of a dict display, from pos (just after "{") to the closing "}"
RECURSIVE ParsePairs(_, _, _)
ParsePairs(toks, pos, acc) ==
  IF IsPunct(Tok(toks, pos), "}") THEN [ok |-> TRUE, pos |-> pos + 1, value |-> acc]
  ELSE IF /\ IsPunct(Tok(toks, pos), "'")
          /\ Tok(toks, pos + 1).t = "name"
          /\ IsPunct(Tok(toks, pos + 2), "'")
          /\ IsPunct(Tok(toks, pos + 3), ":")
          /\ Tok(toks, pos + 4).t = "int"
       THEN LET k == Tok(toks, pos + 1).s
                v == Tok(toks, pos + 4).n
                acc2 == [x \in DOMAIN acc \cup {k} |-> IF x = k THEN v ELSE acc[x]]
            IN IF IsPunct(Tok(toks, pos + 5), ",")
                 THEN ParsePairs(toks, pos + 6, acc2)
               ELSE IF IsPunct(Tok(toks, pos + 5), "}")
                 THEN [ok |-> TRUE, pos |-> pos + 6, value |-> acc2]
               ELSE ParseFail
  ELSE ParseFail

\* the items of a list display, from pos (just after "[") to the closing "]"
RECURSIVE ParseDicts(_, _, _)
ParseDicts(toks, pos, acc) ==
  IF IsPunct(Tok(toks, pos), "]") THEN [ok |-> TRUE, pos |-> pos + 1, value |-> acc]
  ELSE IF IsPunct(Tok(toks, pos), "{")
       THEN LET d == ParsePairs(toks, pos + 1, [k \in {} |-> 0])
            IN IF ~d.ok THEN ParseFail
               ELSE IF IsPunct(Tok(toks, d.pos), ",")
                 THEN ParseDicts(toks, d.pos + 1, Append(acc, d.value))
               ELSE IF IsPunct(Tok(toks, d.pos), "]")
                 THEN [ok |-> TRUE, pos |-> d.pos + 1, value |-> Append(acc, d.value)]
               ELSE ParseFail
  ELSE ParseFail

\* the text as a Python statement: the list it denotes and the name it binds
ParsePython(text) ==
  LET toks == Lex(text)
      named == Tok(toks, 1).t = "name" /\ IsPunct(Tok(toks, 2), "=")
      start == IF named THEN 3 ELSE 1
      lst == IF IsPunct(Tok(toks, start), "[")
               THEN ParseDicts(toks, start + 1, << >>) ELSE ParseFail
  IN [ok    |-> lst.ok /\ lst.pos = Len(toks) + 1,
      name  |-> IF named THEN toks[1].s ELSE "",
      value |-> lst.value]

\* ------------------------------------------------------- lines of a text
\* text.split("\n")
RECURSIVE SplitLines(_)
SplitLines(text) ==
  LET i == LineEnd(text, 1) IN
  IF i > Len(text) THEN << text >>
  ELSE << SubSeq(text, 1, i - 1) >> \o SplitLines(SubSeq(text, i + 1, Len(text)))

NoSpace(text) == SelectSeq(text, LAMBDA c : c # " ")

\* C7: rendering any list of N >= 0 records in Python form and reading the
\* text back gives a list of N mappings, in the same order, with the five
\* field values of the original records, with and without a variable name
\* (with a name, the text assigns the list to that name).
C7_PythonRoundTrip ==
  (fpc = "done" /\ args.outputFormat = "Python") =>
    LET parsed == ParsePython(output.text) IN
    /\ output.raised = "none"
    /\ parsed.ok
    /\ Len(parsed.value) = Len(settings)
    /\ \A i \in 1..Len(settings) :
         /\ DOMAIN parsed.value[i] = { Keys[k] : k \in 1..Len(Keys) }
         /\ \A k \in 1..Len(Keys) :
              parsed.value[i][Keys[k]] = settings[i][Keys[k]]
    /\ parsed.name = (IF Truthy(args.varName) THEN args.varName.s ELSE "")

\* two records whose values have different widths, so that padding is emitted
C7_Witness ==
  /\ fpc = "done"
  /\ args.outputFormat = "Python"
  /\ Truthy(args.varName)
  /\ Len(settings) = 2
  /\ settings[1].Channel > settings[2].Channel
  /\ Len(str(settings[1].Baseline)) # Len(str(settings[2].Baseline))
  /\ Len(ParsePython(output.text).value) = 2

\* C8: in FHiCL form the text consists of the opening line "<varName> : [",
\* one line per record holding "{ Channel: v, BoardNumber: v, BoardChannel: v,
\* Baseline: v, Threshold: v }" followed by a comma except after the last
\* record, and the closing line "] # <varName>"; without a variable name the
\* prefix and the comment are absent.
FHiCLEntryClaimed(entry) ==
  << "{" >>
  \o Join(<< "," >>, [k \in 1..Len(Keys) |-> << Keys[k], ":" >> \o str(entry[Keys[k]])])
  \o << "}" >>

C8_FHiCLLayout ==
  (fpc = "done" /\ args.outputFormat = "FHiCL") =>
    LET lines == SplitLines(output.text)
        N == Len(settings)
        named == Truthy(args.varName)
    IN /\ output.raised = "none"
       /\ Len(lines) = N + 3
       /\ NoSpace(lines[1])
            = (IF named THEN << args.varName.s, ":" >> ELSE << >>) \o << "[" >>
       /\ \A i \in 1..N :
            NoSpace(lines[i + 1])
              = FHiCLEntryClaimed(settings[i]) \o (IF i < N THEN << "," >> ELSE << >>)
       /\ NoSpace(lines[N + 2])
            = << "]" >> \o (IF named THEN << "#", args.varName.s >> ELSE << >>)
       /\ lines[N + 3] = << >>


FmtIdle ==
  /\ settings = << >>
  /\ args = [outputFormat |-> "Python", varName |-> NoVarName]
  /\ output = NoOutput
  /\ fpc = "idle"

ScanIdle ==
  /\ inputFile = << >>
  /\ iLine = 0
  /\ Settings = << >>
  /\ currentBoard = None
  /\ channelsInBoard = {}
  /\ expectedChannels = None
  /\ warnings = << >>
  /\ error = NoError
  /\ result = [returned |-> FALSE, value |-> << >>]
  /\ pc = "idle"

\* ======================================================= waveform baselines
\* a waveform object: its identity, ChannelNumber() and its samples
SampleSet == { << 4 >>, << 1, 6 >> }

WaveformValues == [ChannelNumber : 0..MaxChannel, samples : SampleSet]

\* the products an event can hold: up to MaxWaveforms waveform objects
EventSet ==
  { [i \in 1..Len(e) |->
       [id |-> i, ChannelNumber |-> e[i].ChannelNumber, samples |-> e[i].samples]] :
    e \in SeqsUpTo(WaveformValues, MaxWaveforms) }

\* an optional integer argument: None or an integer
NoneArg == [given |-> FALSE, n |-> 0]
IntArg(n) == [given |-> TRUE, n |-> n]
\* "not x" for None or an integer
Not(x) == ~x.given \/ x.n = 0

Raised(kind) == [raised |-> kind, value |-> << >>]
Returned(v) == [raised |-> "none", value |-> v]

\* the keys of WaveformsByChannelDict
ChannelsOf(W) == { W[i].ChannelNumber : i \in DOMAIN W }

\* WaveformsByChannelDict.get(ch, []): the waveforms of channel ch, in input order
BucketOf(W, ch) == SelectSeq(W, LAMBDA w : w.ChannelNumber = ch)

\* NChannels inferred as the maximum channel id, without the + 1
groupPMTsByChannelOffByOne(W, NChannels) ==
  IF Not(NChannels) /\ ChannelsOf(W) = {}
    THEN Raised("ValueError")
  ELSE LET N == IF Not(NChannels) THEN SetMax(ChannelsOf(W)) ELSE NChannels.n
       IN Returned([k \in 1..N |-> BucketOf(W, k - 1)])

groupPMTsByChannel(W, NChannels) ==
  IF Not(NChannels) /\ ChannelsOf(W) = {}
    THEN Raised("ValueError")
  ELSE LET N == IF Not(NChannels) THEN SetMax(ChannelsOf(W)) + 1 ELSE NChannels.n
       IN Returned([k \in 1..N |-> BucketOf(W, k - 1)])

\* numpy.concatenate over the sample arrays of a list of waveforms
RECURSIVE Concatenate(_)
Concatenate(ws) ==
  IF Len(ws) = 0 THEN << >> ELSE ws[1].samples \o Concatenate(Tail(ws))

RECURSIVE InsertSorted(_, _)
InsertSorted(sorted, x) ==
  IF Len(sorted) = 0 THEN << x >>
  ELSE IF sorted[Len(sorted)] <= x THEN Append(sorted, x)
  ELSE Append(InsertSorted(SubSeq(sorted, 1, Len(sorted) - 1), x), sorted[Len(sorted)])

RECURSIVE Sorted(_)
Sorted(xs) ==
  IF Len(xs) = 0 THEN << >>
  ELSE InsertSorted(Sorted(SubSeq(xs, 1, Len(xs) - 1)), xs[Len(xs)])

\* numpy.median of a non-empty array, as the fraction num / den
Median(xs) ==
  LET s == Sorted(xs)
      n == Len(s)
  IN IF n % 2 = 1 THEN [num |-> s[(n + 1) \div 2], den |-> 1]
     ELSE LET t == s[n \div 2] + s[n \div 2 + 1]
          IN IF t % 2 = 0 THEN [num |-> t \div 2, den |-> 1] ELSE [num |-> t, den |-> 2]

\* a module-level name: unbound, or bound to a value
Unbound == [bound |-> FALSE, value |-> << >>]
Bound(v) == [bound |-> TRUE, value |-> v]

\* computeBaseline(waveforms): the body reads the module-level name
\* channelWaveforms, not its parameter
computeBaseline(waveforms, globalChannelWaveforms) ==
  IF ~globalChannelWaveforms.bound THEN Raised("NameError")
  ELSE IF Len(globalChannelWaveforms.value) = 0 THEN Raised("ValueError")
  ELSE Returned(Median(Concatenate(globalChannelWaveforms.value)))

\* the exception that ends the script and the function that raised it
NoFailure == [kind |-> "none", raisedBy |-> "none"]
Failure(kind, fn) == [kind |-> kind, raisedBy |-> fn]

\* ------------------------------------------------------------- the script
WaveInit ==
  /\ NumEvents \in 0..MaxEvts
  /\ wargs \in [MaxEvents : {NoneArg, IntArg(1)}, NSkip : 0..1]
  /\ iEvent = 0
  /\ nEvents = 0
  /\ Waveforms = << >>
  /\ WaveformsByChannel = << >>
  /\ channel = 0
  /\ channelWaveforms = Unbound
  /\ baselines = << >>
  /\ werror = NoFailure
  /\ wpc = "event"

AtEvent == wpc = "event" /\ iEvent < NumEvents

\* if iEvent < args.NSkip: continue
SkipEvent ==
  /\ AtEvent
  /\ iEvent < wargs.NSkip
  /\ iEvent' = iEvent + 1
  /\ UNCHANGED << NumEvents, wargs, nEvents, Waveforms, WaveformsByChannel,
                  channel, channelWaveforms, baselines, werror, wpc >>
  /\ UNCHANGED notWaveVars

\* maximum number of events reached: break
MaxEventsReached ==
  /\ AtEvent
  /\ iEvent >= wargs.NSkip
  /\ wargs.MaxEvents.given /\ nEvents >= wargs.MaxEvents.n
  /\ wpc' = "end"
  /\ UNCHANGED << NumEvents, wargs, iEvent, nEvents, Waveforms, WaveformsByChannel,
                  channel, channelWaveforms, baselines, werror >>
  /\ UNCHANGED notWaveVars

Processed ==
  /\ AtEvent
  /\ iEvent >= wargs.NSkip
  /\ ~(wargs.MaxEvents.given /\ nEvents >= wargs.MaxEvents.n)

\* read the event's waveforms and group them
GroupEvent ==
  /\ Processed
  /\ \E W \in EventSet :
       /\ groupPMTsByChannel(W, NoneArg).raised = "none"
       /\ Waveforms' = W
       /\ WaveformsByChannel' = groupPMTsByChannel(W, NoneArg).value
  /\ nEvents' = nEvents + 1
  /\ channel' = 0
  /\ baselines' = << >>
  /\ wpc' = "channels"
  /\ UNCHANGED << NumEvents, wargs, iEvent, channelWaveforms, werror >>
  /\ UNCHANGED notWaveVars

\* grouping raises: the script ends with a traceback
GroupEventFails ==
  /\ Processed
  /\ \E W \in EventSet :
       /\ groupPMTsByChannel(W, NoneArg).raised # "none"
       /\ Waveforms' = W
       /\ werror' = Failure(groupPMTsByChannel(W, NoneArg).raised, "groupPMTsByChannel")
  /\ nEvents' = nEvents + 1
  /\ wpc' = "failed"
  /\ UNCHANGED << NumEvents, wargs, iEvent, WaveformsByChannel, channel,
                  channelWaveforms, baselines >>
  /\ UNCHANGED notWaveVars

AtChannel == wpc = "channels" /\ channel < Len(WaveformsByChannel)

\* one iteration of the inner loop: bind channelWaveforms, compute, print
ChannelBaseline ==
  /\ AtChannel
  /\ channelWaveforms' = Bound(WaveformsByChannel[channel + 1])
  /\ LET r == computeBaseline(WaveformsByChannel[channel + 1], channelWaveforms') IN
       /\ r.raised = "none"
       /\ baselines' = Append(baselines,
                              [channel |-> channel, baseline |-> r.value,
                               count |-> Len(WaveformsByChannel[channel + 1])])
  /\ channel' = channel + 1
  /\ UNCHANGED << NumEvents, wargs, iEvent, nEvents, Waveforms,
                  WaveformsByChannel, werror, wpc >>
  /\ UNCHANGED notWaveVars

\* computeBaseline raises: the script ends with a traceback
ChannelBaselineFails ==
  /\ AtChannel
  /\ channelWaveforms' = Bound(WaveformsByChannel[channel + 1])
  /\ LET r == computeBaseline(WaveformsByChannel[channel + 1], channelWaveforms') IN
       /\ r.raised # "none"
       /\ werror' = Failure(r.raised, "computeBaseline")
  /\ wpc' = "failed"
  /\ UNCHANGED << NumEvents, wargs, iEvent, nEvents, Waveforms,
                  WaveformsByChannel, channel, baselines >>
  /\ UNCHANGED notWaveVars

\* the inner loop is over: next event
EndChannels ==
  /\ wpc = "channels"
  /\ channel = Len(WaveformsByChannel)
  /\ iEvent' = iEvent + 1
  /\ wpc' = "event"
  /\ UNCHANGED << NumEvents, wargs, nEvents, Waveforms, WaveformsByChannel,
                  channel, channelWaveforms, baselines, werror >>
  /\ UNCHANGED notWaveVars

\* no more events
EndOfInput ==
  /\ wpc = "event"
  /\ iEvent = NumEvents
  /\ wpc' = "end"
  /\ UNCHANGED << NumEvents, wargs, iEvent, nEvents, Waveforms, WaveformsByChannel,
                  channel, channelWaveforms, baselines, werror >>
  /\ UNCHANGED notWaveVars

WaveNext ==
  \/ SkipEvent
  \/ MaxEventsReached
  \/ GroupEvent
  \/ GroupEventFails
  \/ ChannelBaseline
  \/ ChannelBaselineFails
  \/ EndChannels
  \/ EndOfInput

WaveIdle ==
  /\ NumEvents = 0
  /\ wargs = [MaxEvents |-> NoneArg, NSkip |-> 0]
  /\ iEvent = 0
  /\ nEvents = 0
  /\ Waveforms = << >>
  /\ WaveformsByChannel = << >>
  /\ channel = 0
  /\ channelWaveforms = Unbound
  /\ baselines = << >>
  /\ werror = NoFailure
  /\ wpc = "idle"

\* ------------------------------------------- the functions called directly
NChannelsSet == { NoneArg } \cup { IntArg(n) : n \in 0..(MaxChannel + 2) }

CallInit ==
  /\ callWaveforms \in EventSet
  /\ callNChannels \in NChannelsSet
  /\ callResult = Returned(<< >>)
  /\ cpc = "call"

\* groupPMTsByChannel(Waveforms) with NChannels left to its default
CallGroupDefault ==
  /\ cpc = "call"
  /\ ~callNChannels.given
  /\ callResult' = groupPMTsByChannel(callWaveforms, callNChannels)
  /\ cpc' = "done"
  /\ UNCHANGED << callWaveforms, callNChannels >>
  /\ UNCHANGED notCallVars

\* groupPMTsByChannel(Waveforms, NChannels)
CallGroupExplicit ==
  /\ cpc = "call"
  /\ callNChannels.given
  /\ callResult' = groupPMTsByChannel(callWaveforms, callNChannels)
  /\ cpc' = "done"
  /\ UNCHANGED << callWaveforms, callNChannels >>
  /\ UNCHANGED notCallVars

\* computeBaseline(waveforms) called from an importing module: the name
\* channelWaveforms is bound only by the script's own loop
CallComputeBaseline ==
  /\ cpc = "call"
  /\ ~callNChannels.given
  /\ callResult' = computeBaseline(callWaveforms, channelWaveforms)
  /\ cpc' = "computed"
  /\ UNCHANGED << callWaveforms, callNChannels >>
  /\ UNCHANGED notCallVars

CallNext ==
  \/ CallGroupDefault
  \/ CallGroupExplicit
  \/ CallComputeBaseline

CallIdle ==
  /\ callWaveforms = << >>
  /\ callNChannels = NoneArg
  /\ callResult = Returned(<< >>)
  /\ cpc = "idle"

\* the waveforms of W on channel c, in the order of W
OnChannel(W, c) ==
  LET idx == Ascending({ k \in DOMAIN W : W[k].ChannelNumber = c })
  IN [j \in 1..Len(idx) |-> W[idx[j]]]

\* number of (bucket, position) places at which waveform w occurs
Occurrences(buckets, w) ==
  Cardinality({ bp \in UNION { { << b, q >> : q \in DOMAIN buckets[b] } : b \in DOMAIN buckets } :
                  buckets[bp[1]][bp[2]] = w })

\* C9 as stated: for every waveform sequence and every optional NChannels the
\* call returns NChannels buckets when NChannels is provided and (maximum
\* channel id + 1) otherwise, bucket i holds the input waveforms of channel i
\* in input order, and every input waveform is in exactly one bucket.
C9_AsStated ==
  cpc = "done" =>
    /\ callResult.raised = "none"
    /\ callNChannels.given => Len(callResult.value) = callNChannels.n
    /\ (~callNChannels.given /\ callWaveforms # << >>) =>
         Len(callResult.value) = SetMax(ChannelsOf(callWaveforms)) + 1
    /\ \A i \in 1..Len(callResult.value) :
         callResult.value[i] = OnChannel(callWaveforms, i - 1)
    /\ \A k \in DOMAIN callWaveforms :
         Occurrences(callResult.value, callWaveforms[k]) = 1

\* C9 amended: the call returns NChannels buckets when a non-zero NChannels
\* is provided and (maximum channel id + 1) buckets when NChannels is absent
\* or 0; in the latter case an empty waveform sequence makes it raise
\* ValueError.  Bucket i holds exactly the input waveforms of channel i in
\* input order; a waveform whose channel id is below the number of buckets is
\* in exactly one bucket, any other waveform is in none.
C9_Buckets ==
  cpc = "done" =>
    LET inferred == ~callNChannels.given \/ callNChannels.n = 0 IN
    IF inferred /\ callWaveforms = << >>
      THEN callResult.raised = "ValueError"
    ELSE
      /\ callResult.raised = "none"
      /\ Len(callResult.value)
           = (IF inferred THEN SetMax(ChannelsOf(callWaveforms)) + 1
              ELSE callNChannels.n)
      /\ \A i \in 1..Len(callResult.value) :
           callResult.value[i] = OnChannel(callWaveforms, i - 1)
      /\ \A k \in DOMAIN callWaveforms :
           Occurrences(callResult.value, callWaveforms[k])
             = (IF callWaveforms[k].ChannelNumber < Len(callResult.value) THEN 1 ELSE 0)

\* an explicit NChannels smaller than the largest channel id: a bucket with
\* two waveforms, an empty bucket and a waveform that is left out
C9_Witness ==
  /\ cpc = "done"
  /\ callNChannels.given
  /\ callResult.raised = "none"
  /\ Len(callResult.value) = 2
  /\ \E i \in 1..2 : Len(callResult.value[i]) = 2
  /\ \E i \in 1..2 : Len(callResult.value[i]) = 0
  /\ \E k \in DOMAIN callWaveforms : Occurrences(callResult.value, callWaveforms[k]) = 0

\* C10: for every processed event the script prints a baseline for every
\* bucket (channels without a waveform included), each being the median of
\* the concatenated samples of the waveforms handed to computeBaseline.
C10_BaselinePerBucket ==
  /\ werror.raisedBy # "computeBaseline"
  /\ (wpc = "channels" /\ channel = Len(WaveformsByChannel)) =>
       /\ Len(baselines) = Len(WaveformsByChannel)
       /\ \A i \in 1..Len(baselines) :
            baselines[i].baseline = Median(Concatenate(WaveformsByChannel[i]))

Init == ScanInit /\ FmtIdle /\ WaveIdle /\ CallIdle
Next == ScanNext
Spec == Init /\ [][Next]_vars

FmtSpecInit == FmtInit /\ ScanIdle /\ WaveIdle /\ CallIdle
FmtSpec == FmtSpecInit /\ [][FmtNext]_vars

WaveSpecInit == WaveInit /\ ScanIdle /\ FmtIdle /\ CallIdle
WaveSpec == WaveSpecInit /\ [][WaveNext]_vars

CallSpecInit == CallInit /\ ScanIdle /\ FmtIdle /\ WaveIdle
CallSpec == CallSpecInit /\ [][CallNext]_vars
====
